---------------------------- MODULE Spec2Model ----------------------------
(***************************************************************************)
(* A model of crawl_website (src/streamlit_app.py): the breadth-first      *)
(* crawler that stays on the start URL's host, bounds the link depth and   *)
(* collects WhatsApp invite links.                                         *)
(*                                                                         *)
(* A URL string is modelled by the five components urlparse gives for it   *)
(* (scheme, netloc, path, query, fragment); the path is kept as the list   *)
(* path.split('/') so that urljoin's segment arithmetic is modelled as     *)
(* the library computes it ("" is <<"">>, "/p" is <<"", "p">>, "q" is      *)
(* <<"q">>).  On the URLs used here the string and its components          *)
(* determine each other, so equality of records is equality of strings.    *)
(***************************************************************************)
EXTENDS Integers, Sequences, FiniteSets, TLC

VARIABLES
    pc,                     \* position in crawl_website
    start_url,              \* argument start_url
    max_depth,              \* argument max_depth
    start_domain,           \* line 47
    queue,                  \* deque of (url, depth), line 53
    visited_urls,           \* line 54
    found_whatsapp_links,   \* line 55
    pages_crawled,          \* line 56
    current,                \* (current_url, current_depth), line 63
    response,               \* the response of requests.get, line 82
    result,                 \* the returned pair, lines 45, 50, 119
    events,                 \* the calls made on status_text, in order
    requests,               \* the HTTP GETs issued, in order (history)
    delays,                 \* the seconds spent in time.sleep (history)
    enqueued,               \* every entry ever put in the queue (history)
    dequeued,               \* every entry popped from the queue (history)
    processed,              \* the pages that reached line 91 (history)
    canon                   \* an href canonicalized by lines 103-107, and
                            \* its clean link canonicalized again

vars == <<pc, start_url, max_depth, start_domain, queue, visited_urls,
          found_whatsapp_links, pages_crawled, current, response, result,
          events, requests, delays, enqueued, dequeued, processed, canon>>

-----------------------------------------------------------------------------
(* Bounds of the model *)

MaxDepth == 3

-----------------------------------------------------------------------------
(* Constants of the program *)

REQUEST_DELAY == 1

-----------------------------------------------------------------------------
(* URLs *)

Url(s, n, p, q, f) ==
    [scheme |-> s, netloc |-> n, path |-> p, query |-> q, fragment |-> f]

EmptyPath == <<"">>

uses_relative == {"", "ftp", "http", "https"}

uses_netloc == {"", "ftp", "http", "https"}

\* urlparse raises ValueError on an unbalanced bracket in the netloc
\* ("Invalid IPv6 URL"); the component "[" stands for such a netloc.
urlparse_raises(url) == url.netloc = "["

\* urlunparse followed by urlparse: a relative path gets its leading slash
\* when the URL has a netloc (or a scheme that takes one).
geturl(u) ==
    IF /\ u.netloc # "" \/ (u.scheme # "" /\ u.scheme \in uses_netloc)
       /\ u.path # EmptyPath
       /\ u.path[1] # ""
    THEN [u EXCEPT !.path = <<"">> \o u.path]
    ELSE u

RECURSIVE ResolveSegments(_, _)
ResolveSegments(segments, resolved_path) ==
    IF segments = <<>> THEN resolved_path
    ELSE LET seg == Head(segments) IN
         IF seg = ".."
         THEN ResolveSegments(Tail(segments),
                  IF resolved_path = <<>> THEN <<>>
                  ELSE SubSeq(resolved_path, 1, Len(resolved_path) - 1))
         ELSE IF seg = "."
         THEN ResolveSegments(Tail(segments), resolved_path)
         ELSE ResolveSegments(Tail(segments), Append(resolved_path, seg))

\* '/'.join(resolved_path) or '/'
JoinOrSlash(resolved_path) ==
    IF resolved_path = <<>> \/ resolved_path = <<"">> THEN <<"", "">>
    ELSE resolved_path

ResolvePath(bpath, path) ==
    LET base_parts == IF bpath[Len(bpath)] # ""
                      THEN SubSeq(bpath, 1, Len(bpath) - 1)
                      ELSE bpath
        joined == base_parts \o path
        middle == SelectSeq(SubSeq(joined, 2, Len(joined) - 1),
                            LAMBDA x : x # "")
        segments ==
            IF Len(path) >= 2 /\ path[1] = "" THEN path
            ELSE IF Len(joined) <= 1 THEN joined
            ELSE <<joined[1]>> \o middle \o <<joined[Len(joined)]>>
        resolved == ResolveSegments(segments, <<>>)
        resolved_path == IF segments[Len(segments)] \in {".", ".."}
                         THEN Append(resolved, "")
                         ELSE resolved
    IN JoinOrSlash(resolved_path)

EmptyUrl == Url("", "", EmptyPath, "", "")

urljoin(base, url) ==
    IF url = EmptyUrl THEN base
    ELSE LET scheme == IF url.scheme = "" THEN base.scheme ELSE url.scheme IN
         IF scheme # base.scheme \/ scheme \notin uses_relative THEN url
         ELSE IF scheme \in uses_netloc /\ url.netloc # ""
         THEN geturl(Url(scheme, url.netloc, url.path, url.query, url.fragment))
         ELSE LET netloc == IF scheme \in uses_netloc THEN base.netloc
                            ELSE url.netloc IN
              IF url.path = EmptyPath
              THEN geturl(Url(scheme, netloc, base.path,
                              IF url.query = "" THEN base.query ELSE url.query,
                              url.fragment))
              ELSE geturl(Url(scheme, netloc, ResolvePath(base.path, url.path),
                              url.query, url.fragment))

\* lines 106-107: parsed_link._replace(fragment="", query="").geturl()
clean(absolute_link) ==
    geturl([absolute_link EXCEPT !.fragment = "", !.query = ""])

\* lines 103-107 with urljoin given the path of the href only
canonicalize_path_only(current_url, href) ==
    clean(urljoin(current_url, [href EXCEPT !.scheme = "", !.netloc = ""]))

\* lines 103-107
canonicalize(current_url, href) == clean(urljoin(current_url, href))

\* any() in place of all() on line 19
is_valid_url_any(url) ==
    IF urlparse_raises(url) THEN FALSE
    ELSE url.scheme # "" \/ url.netloc # ""

\* lines 15-21
is_valid_url(url) ==
    IF urlparse_raises(url) THEN FALSE
    ELSE url.scheme # "" /\ url.netloc # ""

\* lines 23-28; None is modelled by "", which `not start_domain` treats alike
get_domain(url) ==
    IF urlparse_raises(url) THEN ""
    ELSE url.netloc


-----------------------------------------------------------------------------
(* The inputs: start URLs, hrefs, page bodies, responses *)

Host == "a.com"

StartPlain == Url("https", Host, EmptyPath, "", "")            \* https://a.com
StartQuery == Url("https", Host, <<"", "p">>, "x=1", "")       \* https://a.com/p?x=1
StartBare == Url("", "", <<"a.com", "p">>, "", "")             \* a.com/p
StartNoScheme == Url("", Host, <<"", "p">>, "", "")            \* //a.com/p
StartNoHost == Url("https", "", <<"", "p">>, "", "")           \* https:///p
StartMalformed == Url("http", "[", EmptyPath, "", "")          \* http://[

StartUrls ==
    {StartPlain, StartQuery, StartBare, StartNoScheme, StartNoHost,
     StartMalformed}

HrefPFrag == Url("https", Host, <<"", "p">>, "", "s1")         \* https://a.com/p#s1
HrefPQuery == Url("https", Host, <<"", "p">>, "x=1", "")       \* https://a.com/p?x=1
HrefAbsQ == Url("", "", <<"", "q">>, "", "")                   \* /q
HrefRelQ == Url("", "", <<"q">>, "", "")                       \* q
HrefUpP == Url("", "", <<"..", "p">>, "", "")                  \* ../p
HrefOther == Url("https", "o.com", <<"", "p">>, "", "")        \* https://o.com/p
HrefSub == Url("https", "sub.a.com", <<"", "p">>, "", "")      \* https://sub.a.com/p
HrefProtoRel == Url("", "o.com", <<"", "q">>, "", "")          \* //o.com/q
HrefMailto == Url("mailto", "", <<"x">>, "", "")               \* mailto:x
HrefFragOnly == Url("", "", EmptyPath, "", "top")              \* #top
HrefBad == Url("http", "[", EmptyPath, "", "")                 \* http://[
HrefDirR == Url("", "", <<"d", "r">>, "", "")                  \* d/r

Hrefs ==
    {HrefPFrag, HrefPQuery, HrefAbsQ, HrefRelQ, HrefUpP, HrefOther, HrefSub,
     HrefProtoRel, HrefMailto, HrefFragOnly, HrefBad, HrefDirR, EmptyUrl}

\* An occurrence of <scheme>://<host>/<code> in the text of a page.
Mention(s, h, c) == [scheme |-> s, host |-> h, code |-> c]

WaHost == "chat.whatsapp.com"

\* A page body: its anchors with an href, in document order, and the
\* link-like occurrences in its text.
Page(a, t) == [anchors |-> a, text |-> t]

PageDup ==
    Page(<<HrefPFrag, HrefPQuery, HrefAbsQ>>, {Mention("https", WaHost, "c1")})
PageMixed ==
    Page(<<HrefDirR, HrefOther, HrefSub, HrefProtoRel, HrefAbsQ>>,
         {Mention("http", WaHost, "c2")})
PageBad ==
    Page(<<HrefRelQ, HrefBad, HrefUpP>>, {Mention("http", WaHost, "c4")})
PageMisc ==
    Page(<<HrefMailto, EmptyUrl, HrefFragOnly, HrefUpP>>,
         {Mention("HTTPS", WaHost, "c1"), Mention("https", "wa.me", "c2")})
PageLeaf ==
    Page(<<>>, {Mention("https", WaHost, "c1"), Mention("http", WaHost, "c1")})
PageError ==
    Page(<<HrefAbsQ>>, {Mention("https", WaHost, "c3")})

HtmlPages == {PageDup, PageMixed, PageBad, PageMisc, PageLeaf}

\* What requests.get can give for one URL: a transport failure, or a
\* response with a status, a content type and a body.
Response(e, st, ct, b) ==
    [error |-> e, status |-> st, content_type |-> ct, body |-> b]

NoResponse == Response("none", "none", "", Page(<<>>, {}))

Responses ==
    {Response("network", "none", "", Page(<<>>, {})),
     Response("none", "404", "text/html", PageError),
     Response("none", "200", "application/pdf", PageError)}
    \cup {Response("none", "200", "text/html", b) : b \in HtmlPages}

\* requests.get raising a RequestException (line 82)
get_raises(r) == r.error # "none"

\* line 83 left out
raise_for_status_never(r) == FALSE

\* response.raise_for_status() raising HTTPError (line 83)
raise_for_status_raises(r) == r.status # "200"

\* 'text/html' not in content_type (line 87)
is_html(r) == r.content_type = "text/html"

\* The URLs a crawl from a valid start URL can come to fetch within
\* MaxDepth + 1 links, and the clean link of every href on each of them
\* (lines 103-107), computed once.
RECURSIVE WithinLinks(_)
WithinLinks(n) ==
    IF n = 0 THEN {u \in StartUrls : is_valid_url(u)}
    ELSE LET near == WithinLinks(n - 1)
         IN near \cup
            {c \in {canonicalize(b, h) :
                        b \in near, h \in {x \in Hrefs : ~urlparse_raises(x)}} :
                is_valid_url(c)}

PageUrls == WithinLinks(MaxDepth + 1)

CleanLinks ==
    [b \in PageUrls |->
        [h \in {x \in Hrefs : ~urlparse_raises(x)} |-> canonicalize(b, h)]]

clean_link_of(current_url, href) ==
    IF current_url \in PageUrls THEN CleanLinks[current_url][href]
    ELSE canonicalize(current_url, href)

\* line 34 with https:// for https?://
find_whatsapp_links_https_only(page_content) ==
    {m.code : m \in {x \in page_content.text :
                        /\ x.scheme = "https"
                        /\ x.host = WaHost}}

\* re.findall of line 35: the codes of the occurrences the pattern matches
find_whatsapp_links(page_content) ==
    {m.code : m \in {x \in page_content.text :
                        /\ x.scheme \in {"http", "https"}
                        /\ x.host = WaHost}}

\* line 96
full_link(code) == Mention("https", WaHost, code)

-----------------------------------------------------------------------------
(* crawl_website *)

Entry(u, d) == [url |-> u, depth |-> d]

Event(k, m, u) == [kind |-> k, msg |-> m, url |-> u]

NoEntry == Entry(EmptyUrl, 0)

NoResult == [links |-> {}, pages |-> -1]

\* One href on its way through lines 103-107, on a page and then again on
\* another: the base, the href, the clean link, the second base and the
\* clean link of the clean link.
Canon(st, b, h, o, a, t) ==
    [stage |-> st, base |-> b, href |-> h, once |-> o, again |-> a, twice |-> t]

NoCanon == Canon("none", EmptyUrl, EmptyUrl, EmptyUrl, EmptyUrl, EmptyUrl)

Init ==
    /\ pc = "start"
    /\ start_url \in StartUrls
    /\ max_depth \in -1 .. MaxDepth
    /\ start_domain = ""
    /\ queue = <<>>
    /\ visited_urls = {}
    /\ found_whatsapp_links = {}
    /\ pages_crawled = 0
    /\ current = NoEntry
    /\ response = NoResponse
    /\ result = NoResult
    /\ events = <<>>
    /\ requests = <<>>
    /\ delays = 0
    /\ enqueued = <<>>
    /\ dequeued = <<>>
    /\ processed = <<>>
    /\ canon = NoCanon

\* pop() for popleft() on line 63: the newest entry is taken
pop(q) == [entry |-> q[Len(q)], rest |-> SubSeq(q, 1, Len(q) - 1)]

\* line 63: queue.popleft() takes the oldest entry
popleft(q) == [entry |-> Head(q), rest |-> Tail(q)]

\* the loop stopping with one entry left
while_queue_more_than_one(q) == Len(q) > 1

\* line 62: while queue
while_queue(q) == q # <<>>

\* line 65 without the visited test
should_skip_no_visited(url, depth) == depth > max_depth

\* line 65 with >= for >
should_skip_at_limit(url, depth) ==
    url \in visited_urls \/ depth >= max_depth

\* line 65: the entries the loop drops without fetching
should_skip(url, depth) == url \in visited_urls \/ depth > max_depth

\* line 68 left out
mark_visited_forgotten(url) == visited_urls

\* line 68
mark_visited(url) == visited_urls \cup {url}

\* line 100 with <= for <
can_expand_inclusive(depth) == depth <= max_depth

\* line 100
can_expand(depth) == depth < max_depth

\* line 110 without the domain test
should_enqueue_any_domain(clean_link) ==
    /\ is_valid_url(clean_link)
    /\ clean_link \notin visited_urls

\* line 110 without the visited test
should_enqueue_ignoring_visited(clean_link) ==
    /\ is_valid_url(clean_link)
    /\ get_domain(clean_link) = start_domain

\* line 110
should_enqueue(clean_link) ==
    /\ is_valid_url(clean_link)
    /\ get_domain(clean_link) = start_domain
    /\ clean_link \notin visited_urls

\* lines 101-103: the anchors the loop gets through, in document order:
\* all of them, or those before the first href on which urljoin raises.
reached(anchors) ==
    LET bad == {i \in DOMAIN anchors : urlparse_raises(anchors[i])}
    IN IF bad = {} THEN anchors
       ELSE SubSeq(anchors, 1, (CHOOSE i \in bad : \A j \in bad : i <= j) - 1)

raises(anchors) == \E i \in DOMAIN anchors : urlparse_raises(anchors[i])

\* lines 101-111: the entries the page adds to the frontier, in order
new_entries(anchors) ==
    LET links == [i \in DOMAIN reached(anchors) |->
                      clean_link_of(current.url, reached(anchors)[i])]
        kept == SelectSeq(links, should_enqueue)
    IN [i \in DOMAIN kept |-> Entry(kept[i], current.depth + 1)]

\* lines 99-111: what processing the page adds to the frontier, and
\* whether it ended in an exception
expansion ==
    IF can_expand(current.depth)
    THEN [entries |-> new_entries(response.body.anchors),
          raised |-> raises(response.body.anchors)]
    ELSE [entries |-> <<>>, raised |-> FALSE]

\* lines 43-60
Validate ==
    /\ pc = "start"
    /\ IF ~is_valid_url(start_url)
       THEN /\ events' = Append(events,
                            Event("error", "Invalid starting URL", start_url))
            /\ result' = [links |-> {}, pages |-> 0]
            /\ pc' = "done"
            /\ UNCHANGED <<start_domain, queue, enqueued>>
       ELSE IF get_domain(start_url) = ""
       THEN /\ events' = Append(events,
                            Event("error", "Could not determine domain", start_url))
            /\ result' = [links |-> {}, pages |-> 0]
            /\ pc' = "done"
            /\ start_domain' = get_domain(start_url)
            /\ UNCHANGED <<queue, enqueued>>
       ELSE /\ start_domain' = get_domain(start_url)
            /\ queue' = <<Entry(start_url, 0)>>
            /\ enqueued' = <<[url |-> start_url, depth |-> 0, at |-> 0]>>
            /\ pc' = "loop"
            /\ UNCHANGED <<events, result>>
    /\ UNCHANGED <<start_url, max_depth, canon, visited_urls, found_whatsapp_links,
                   pages_crawled, current, response, requests, delays,
                   dequeued, processed>>

\* lines 62-66: an entry popped and dropped
DequeueSkip ==
    /\ pc = "loop"
    /\ while_queue(queue)
    /\ should_skip(popleft(queue).entry.url, popleft(queue).entry.depth)
    /\ current' = popleft(queue).entry
    /\ queue' = popleft(queue).rest
    /\ dequeued' = Append(dequeued, popleft(queue).entry)
    /\ UNCHANGED <<pc, start_url, max_depth, canon, start_domain, visited_urls,
                   found_whatsapp_links, pages_crawled, response, result,
                   events, requests, delays, enqueued, processed>>

\* lines 62-77: an entry popped and taken
DequeueVisit ==
    /\ pc = "loop"
    /\ while_queue(queue)
    /\ ~should_skip(popleft(queue).entry.url, popleft(queue).entry.depth)
    /\ current' = popleft(queue).entry
    /\ queue' = popleft(queue).rest
    /\ dequeued' = Append(dequeued, popleft(queue).entry)
    /\ visited_urls' = mark_visited(popleft(queue).entry.url)
    /\ events' = Append(events,
                        Event("info", "Crawling", popleft(queue).entry.url))
    /\ pages_crawled' = pages_crawled + 1
    /\ pc' = "sleep"
    /\ UNCHANGED <<start_url, max_depth, canon, start_domain, found_whatsapp_links,
                   response, result, requests, delays, enqueued, processed>>

\* line 81 left out: the request goes out without a delay
Sleep_skipped ==
    /\ pc = "sleep"
    /\ pc' = "get"
    /\ UNCHANGED <<start_url, max_depth, canon, start_domain, queue, visited_urls,
                   found_whatsapp_links, pages_crawled, current, response,
                   result, events, requests, delays, enqueued, dequeued,
                   processed>>

\* line 81: time.sleep(REQUEST_DELAY)
Sleep ==
    /\ pc = "sleep"
    /\ delays' = delays + REQUEST_DELAY
    /\ pc' = "get"
    /\ UNCHANGED <<start_url, max_depth, canon, start_domain, queue, visited_urls,
                   found_whatsapp_links, pages_crawled, current, response,
                   result, events, requests, enqueued, dequeued, processed>>

Request(r) == [url |-> current.url, depth |-> current.depth, response |-> r]

\* lines 82-83, 113-114: the GET or raise_for_status raises
FetchFails ==
    /\ pc = "get"
    /\ \E r \in Responses :
         /\ get_raises(r) \/ raise_for_status_raises(r)
         /\ requests' = Append(requests, Request(r))
    /\ events' = Append(events, Event("warning", "Failed to fetch", current.url))
    /\ pc' = "loop"
    /\ UNCHANGED <<start_url, max_depth, canon, start_domain, queue, visited_urls,
                   found_whatsapp_links, pages_crawled, current, response,
                   result, delays, enqueued, dequeued, processed>>

\* lines 82-89: a response that is not HTML
SkipNonHtml ==
    /\ pc = "get"
    /\ \E r \in Responses :
         /\ ~(get_raises(r) \/ raise_for_status_raises(r))
         /\ ~is_html(r)
         /\ requests' = Append(requests, Request(r))
    /\ events' = Append(events,
                        Event("warning", "Skipping non-HTML content", current.url))
    /\ pc' = "loop"
    /\ UNCHANGED <<start_url, max_depth, canon, start_domain, queue, visited_urls,
                   found_whatsapp_links, pages_crawled, current, response,
                   result, delays, enqueued, dequeued, processed>>

\* lines 82-87: an HTML response
FetchHtml ==
    /\ pc = "get"
    /\ \E r \in Responses :
         /\ ~(get_raises(r) \/ raise_for_status_raises(r))
         /\ is_html(r)
         /\ requests' = Append(requests, Request(r))
         /\ response' = r
    /\ pc' = "process"
    /\ UNCHANGED <<start_url, max_depth, canon, start_domain, queue, visited_urls,
                   found_whatsapp_links, pages_crawled, current, result,
                   events, delays, enqueued, dequeued, processed>>

\* lines 91-111, 115-116
Process ==
    /\ pc = "process"
    /\ found_whatsapp_links' =
           found_whatsapp_links \cup
               {full_link(c) : c \in find_whatsapp_links(response.body)}
    /\ queue' = queue \o expansion.entries
    /\ enqueued' = enqueued \o
           [i \in DOMAIN expansion.entries |->
               [url |-> expansion.entries[i].url,
                depth |-> expansion.entries[i].depth,
                at |-> Len(dequeued)]]
    /\ events' = IF expansion.raised
                 THEN Append(events,
                          Event("warning", "Error processing", current.url))
                 ELSE events
    /\ processed' = Append(processed,
                        [url |-> current.url, depth |-> current.depth,
                         body |-> response.body,
                         appended |-> Len(expansion.entries),
                         raised |-> expansion.raised])
    /\ pc' = "loop"
    /\ UNCHANGED <<start_url, max_depth, canon, start_domain, visited_urls,
                   pages_crawled, current, response, result, requests, delays,
                   dequeued>>

\* lines 118-119
Return ==
    /\ pc = "loop"
    /\ ~while_queue(queue)
    /\ result' = [links |-> found_whatsapp_links, pages |-> pages_crawled]
    /\ pc' = "done"
    /\ UNCHANGED <<start_url, max_depth, canon, start_domain, queue, visited_urls,
                   found_whatsapp_links, pages_crawled, current, response,
                   events, requests, delays, enqueued, dequeued, processed>>

Next ==
    \/ Validate
    \/ DequeueSkip
    \/ DequeueVisit
    \/ Sleep
    \/ FetchFails
    \/ SkipNonHtml
    \/ FetchHtml
    \/ Process
    \/ Return

Spec == Init /\ [][Next]_vars

\* The loop runs on its own: a step that can be taken is taken.
FairSpec == Spec /\ WF_vars(Next)

-----------------------------------------------------------------------------
(* Lines 103-107 on their own: an href is canonicalized on a page, and its *)
(* clean link is canonicalized again as an href of any page.               *)

BaseHttp == Url("http", Host, <<"", "p">>, "", "")             \* http://a.com/p
\* A scheme and a path but no host; geturl writes such a URL with an empty
\* netloc (http:///q), which urlparse reads back to the same components.
HrefHttpNoHost == Url("http", "", <<"", "q">>, "", "")         \* http:/q
HrefHttpsNoHost == Url("https", "", <<"", "q">>, "", "")       \* https:/q

\* The pages an href can be on: the URLs a crawl fetches.
CanonBases == PageUrls \cup {BaseHttp}

CanonHrefs ==
    {h \in Hrefs : ~urlparse_raises(h)} \cup {HrefHttpNoHost, HrefHttpsNoHost}

CanonInit ==
    /\ pc = "canon"
    /\ start_url = StartPlain
    /\ max_depth = 0
    /\ start_domain = ""
    /\ queue = <<>>
    /\ visited_urls = {}
    /\ found_whatsapp_links = {}
    /\ pages_crawled = 0
    /\ current = NoEntry
    /\ response = NoResponse
    /\ result = NoResult
    /\ events = <<>>
    /\ requests = <<>>
    /\ delays = 0
    /\ enqueued = <<>>
    /\ dequeued = <<>>
    /\ processed = <<>>
    /\ canon \in {Canon("href", b, h, EmptyUrl, EmptyUrl, EmptyUrl) :
                      b \in CanonBases, h \in CanonHrefs}

\* lines 103-107 for the href on its page
CanonOnce ==
    /\ pc = "canon"
    /\ canon.stage = "href"
    /\ canon' = [canon EXCEPT !.stage = "once",
                              !.once = canonicalize(canon.base, canon.href)]
    /\ UNCHANGED <<pc, start_url, max_depth, start_domain, queue, visited_urls,
                   found_whatsapp_links, pages_crawled, current, response,
                   result, events, requests, delays, enqueued, dequeued,
                   processed>>

\* lines 103-107 for the clean link, met as an href of some page
CanonAgain ==
    /\ pc = "canon"
    /\ canon.stage = "once"
    /\ \E b \in CanonBases :
           canon' = [canon EXCEPT !.stage = "twice",
                                  !.again = b,
                                  !.twice = canonicalize(b, canon.once)]
    /\ UNCHANGED <<pc, start_url, max_depth, start_domain, queue, visited_urls,
                   found_whatsapp_links, pages_crawled, current, response,
                   result, events, requests, delays, enqueued, dequeued,
                   processed>>

CanonNext ==
    \/ CanonOnce
    \/ CanonAgain

CanonSpec == CanonInit /\ [][CanonNext]_vars

-----------------------------------------------------------------------------
(* Properties *)

Last(seq) == seq[Len(seq)]

Links(body) == {full_link(c) : c \in find_whatsapp_links(body)}

\* A response that ends a fetch without a page: a transport error, a status
\* other than 2xx, or a content type that is not HTML.
IsFailure(r) ==
    r.error # "none" \/ r.status # "200" \/ r.content_type # "text/html"

\* C1: within one crawl no URL is requested twice and none is counted
\* twice in pages_crawled, however many anchors point to it.
C1_NoUrlFetchedTwice ==
    /\ \A i, j \in DOMAIN requests :
           requests[i].url = requests[j].url => i = j
    /\ \A i, j \in DOMAIN events :
           (/\ events[i].kind = "info"
            /\ events[j].kind = "info"
            /\ events[i].url = events[j].url) => i = j
    /\ pages_crawled = Len(SelectSeq(events, LAMBDA e : e.kind = "info"))

\* A crawl that ended after a URL was appended twice (two anchors that
\* differ by fragment or query) and fetched.
C1_Witness ==
    /\ pc = "done"
    /\ \E k \in DOMAIN processed :
           /\ processed[k].body = PageDup
           /\ processed[k].appended >= 2
    /\ \E i, j \in DOMAIN enqueued :
           /\ i < j
           /\ enqueued[i].url = enqueued[j].url
           /\ \E k \in DOMAIN requests : requests[k].url = enqueued[i].url

\* C2: every URL requested, and every URL put in the frontier, has the
\* netloc of the start URL; other hosts, subdomains included, never get in.
C2_StaysOnStartDomain ==
    /\ \A i \in DOMAIN requests :
           get_domain(requests[i].url) = get_domain(start_url)
    /\ \A i \in DOMAIN enqueued :
           get_domain(enqueued[i].url) = get_domain(start_url)
    /\ pc \in {"loop", "sleep", "get", "process"} =>
           start_domain = get_domain(start_url)

\* A crawl that ended after expanding a page with anchors to another host,
\* to a subdomain and to the start host.
C2_Witness ==
    /\ pc = "done"
    /\ \E k \in DOMAIN processed :
           /\ processed[k].body = PageMixed
           /\ processed[k].depth < max_depth
           /\ processed[k].appended >= 1

\* C3: for max_depth >= 0 every frontier entry has depth <= max_depth, no
\* page is requested deeper, and a page fetched at depth = max_depth adds
\* nothing to the frontier while its invite links are collected.
C3_DepthBound ==
    max_depth >= 0 =>
        /\ \A i \in DOMAIN enqueued : enqueued[i].depth <= max_depth
        /\ \A i \in DOMAIN requests : requests[i].depth <= max_depth
        /\ \A k \in DOMAIN processed :
               /\ processed[k].depth = max_depth => processed[k].appended = 0
               /\ Links(processed[k].body) \subseteq found_whatsapp_links

\* A page fetched at depth = max_depth >= 1 that has an invite link and an
\* anchor the frontier would take, right after it was processed.
C3_Witness ==
    /\ pc = "loop"
    /\ max_depth >= 1
    /\ processed # <<>>
    /\ LET p == Last(processed) IN
           /\ p.depth = max_depth
           /\ p.url = current.url
           /\ Links(p.body) # {}
           /\ \E i \in DOMAIN p.body.anchors :
                  /\ ~urlparse_raises(p.body.anchors[i])
                  /\ should_enqueue(canonicalize(p.url, p.body.anchors[i]))

\* C4: with a valid start URL and max_depth = 0 only the start URL is
\* requested, nothing but the start entry is ever put in the frontier, and
\* at return pages_crawled = 1 and the result holds the page's invite links.
C4_DepthZero ==
    (max_depth = 0 /\ start_url.scheme # "" /\ start_url.netloc \notin {"", "["}) =>
        /\ Len(enqueued) <= 1
        /\ Len(requests) <= 1
        /\ \A i \in DOMAIN requests : requests[i].url = start_url
        /\ pc = "done" =>
               /\ Len(requests) = 1
               /\ pages_crawled = 1
               /\ result.pages = 1
               /\ \A k \in DOMAIN processed :
                      Links(processed[k].body) \subseteq result.links

\* A crawl with max_depth = 0 that ended after fetching a start page with
\* anchors to the start host and an invite link.
C4_Witness ==
    /\ pc = "done"
    /\ max_depth = 0
    /\ Len(processed) = 1
    /\ processed[1].body = PageDup
    /\ result.links # {}

FailedFetchStep ==
    /\ Len(requests') = Len(requests) + 1
    /\ IsFailure(Last(requests').response)

AfterFailure ==
    /\ pc = "loop"
    /\ events # <<>>
    /\ Last(events).kind = "warning"

\* C6: a failure (transport error, HTTP error, non-HTML, exception while
\* processing) does not end the crawl: the frontier is at every moment the
\* appended entries not yet dequeued, in order; after a failure the loop
\* still runs until the frontier is empty and the call returns; and at
\* return every appended entry has been dequeued once.
C6_FailureDoesNotAbort ==
    /\ [](/\ Len(queue) = Len(enqueued) - Len(dequeued)
          /\ \A i \in DOMAIN queue :
                 LET e == enqueued[Len(dequeued) + i]
                 IN queue[i] = Entry(e.url, e.depth))
    /\ AfterFailure ~> (pc = "done" /\ queue = <<>>)
    /\ [](pc = "done" =>
            /\ Len(dequeued) = Len(enqueued)
            /\ \A i \in DOMAIN enqueued :
                   dequeued[i] = Entry(enqueued[i].url, enqueued[i].depth))

\* A crawl that ended after a failure that left entries in the frontier.
C6_Witness ==
    /\ pc = "done"
    /\ \E i \in DOMAIN requests, d \in DOMAIN dequeued, j \in DOMAIN enqueued :
           /\ IsFailure(requests[i].response)
           /\ dequeued[d].url = requests[i].url
           /\ \A e \in 1 .. (d - 1) : dequeued[e].url # requests[i].url
           /\ j > d
           /\ enqueued[j].at < d

\* C7: an invalid start URL (no scheme, no host, or not parseable) ends the
\* call at once: one error event, the result ({}, 0), no request, no delay,
\* nothing put in or taken from the frontier.
C7_InvalidStartRejected ==
    (/\ pc # "start"
     /\ \/ start_url.scheme = ""
        \/ start_url.netloc = ""
        \/ urlparse_raises(start_url)) =>
        /\ pc = "done"
        /\ Len(events) = 1
        /\ events[1].kind = "error"
        /\ result = [links |-> {}, pages |-> 0]
        /\ requests = <<>>
        /\ delays = 0
        /\ enqueued = <<>>
        /\ dequeued = <<>>
        /\ pages_crawled = 0

\* The call has returned for a start URL without a host.
C7_Witness ==
    /\ pc = "done"
    /\ start_url = StartNoHost
    /\ events # <<>>

\* C8 (as claimed): no two requests of a crawl have the same canonical form
\* (fragment and query stripped), the start URL included.
C8_OneFetchPerCanonicalUrl ==
    \A i, j \in DOMAIN requests :
        clean(requests[i].url) = clean(requests[j].url) => i = j

HtmlRequests == {i \in DOMAIN requests : ~IsFailure(requests[i].response)}

\* The invite links a body mentions: https://chat.whatsapp.com/<code> for
\* each occurrence of http(s)://chat.whatsapp.com/<code> in its text.
InviteLinks(body) ==
    {Mention("https", WaHost, m.code) :
         m \in {x \in body.text : /\ x.scheme \in {"http", "https"}
                                   /\ x.host = WaHost}}

\* C11: at return the result set is exactly the https invite links of the
\* codes mentioned (http or https) in the pages fetched as HTML; during the
\* crawl the found set never holds a link of any other page.
C11_ResultIsLinksOfHtmlPages ==
    /\ found_whatsapp_links \subseteq
           UNION {InviteLinks(requests[i].response.body) : i \in HtmlRequests}
    /\ pc = "done" =>
           result.links =
               UNION {InviteLinks(requests[i].response.body) : i \in HtmlRequests}

\* A crawl that ended after a failed fetch of a page that mentions a code,
\* a page whose anchors raised after its links were collected, and a page
\* that mentions a code with the http scheme.
C11_Witness ==
    /\ pc = "done"
    /\ \E k \in DOMAIN processed :
           /\ processed[k].raised
           /\ InviteLinks(processed[k].body) # {}
    /\ \E i \in DOMAIN requests :
           /\ IsFailure(requests[i].response)
           /\ InviteLinks(requests[i].response.body) # {}
    /\ \E k \in DOMAIN processed :
           /\ processed[k].body = PageMixed
           /\ Mention("https", WaHost, "c2") \in result.links
    /\ Mention("https", WaHost, "c3") \notin result.links

\* C12: the frontier is served breadth-first: the depths of the entries in
\* the queue never decrease from front to back and span at most two
\* consecutive values; the entries are dequeued (and the pages processed) in
\* non-decreasing depth, and nothing still in the queue is shallower than an
\* entry already dequeued.
C12_BreadthFirst ==
    /\ \A i, j \in DOMAIN queue :
           i < j => queue[i].depth <= queue[j].depth
    /\ queue # <<>> => Last(queue).depth - Head(queue).depth <= 1
    /\ \A i, j \in DOMAIN dequeued :
           i < j => dequeued[i].depth <= dequeued[j].depth
    /\ \A i \in DOMAIN dequeued, j \in DOMAIN queue :
           dequeued[i].depth <= queue[j].depth
    /\ \A i, j \in DOMAIN processed :
           i < j => processed[i].depth <= processed[j].depth
    /\ pc \in {"sleep", "get", "process"} => current = Last(dequeued)

\* A page of depth 1 has just been expanded while another entry of depth 1
\* is still waiting: the queue holds depth 1 in front of depth 2.
C12_Witness ==
    /\ pc = "loop"
    /\ processed # <<>>
    /\ Last(processed).depth = 1
    /\ Last(processed).appended >= 1
    /\ Len(queue) >= 2
    /\ Head(queue).depth = 1
    /\ Last(queue).depth = 2

\* The anchors of a body that resolve to a URL (urljoin does not raise).
Resolvable(anchors) ==
    {anchors[k] : k \in {n \in DOMAIN anchors : ~urlparse_raises(anchors[n])}}

\* The link graph of the crawl so far: an edge u -> v for every page
\* fetched as HTML at u and every anchor of it whose clean link v is a valid
\* URL on the start host.
LinkGraph ==
    UNION {{<<requests[i].url, v>> :
               v \in {c \in {clean_link_of(requests[i].url, a) :
                                 a \in Resolvable(requests[i].response.body.anchors)} :
                         /\ is_valid_url(c)
                         /\ get_domain(c) = get_domain(start_url)}} :
           i \in HtmlRequests}

\* The URLs at link distance <= n from the start URL in a graph.
RECURSIVE Within(_, _)
Within(graph, n) ==
    IF n = 0 THEN {start_url}
    ELSE LET near == Within(graph, n - 1)
         IN near \cup {e[2] : e \in {x \in graph : x[1] \in near}}

\* url has link distance n from the start URL in the graph.
HasDistance(graph, url, n) ==
    /\ url \in Within(graph, n)
    /\ n > 0 => url \notin Within(graph, n - 1)

\* C13 (as claimed): every URL requested is requested at the depth that is
\* its shortest link distance from the start URL in the graph of the
\* same-domain clean anchors of the pages fetched as HTML.
C13_FetchedAtShortestDistance ==
    \A i \in DOMAIN requests :
        HasDistance(LinkGraph, requests[i].url, requests[i].depth)

\* No page fetched so far has an href on which urljoin raises.
NoAnchorRaises ==
    \A i \in DOMAIN requests : ~raises(requests[i].response.body.anchors)

\* The shortest-distance property of C13 on the crawls in which no href
\* raises: there the depth of every request is its link distance.
ShortestDistanceUnlessRaised ==
    NoAnchorRaises => C13_FetchedAtShortestDistance

\* The requests sent and not yet answered: the loop waits in requests.get.
InFlight == IF pc = "get" THEN 1 ELSE 0

\* C14: one request at a time, each after its own delay: the time slept is
\* REQUEST_DELAY for every request sent, answered or in flight, failed or
\* not; a delay starts only when every earlier request has been answered,
\* and the only step that follows a delay is its request.
C14_OneDelayPerRequest ==
    /\ [](/\ REQUEST_DELAY > 0
          /\ delays = REQUEST_DELAY * (Len(requests) + InFlight))
    /\ [][delays' # delays =>
              /\ delays = REQUEST_DELAY * Len(requests)
              /\ delays' = delays + REQUEST_DELAY
              /\ requests' = requests
              /\ pc' = "get"]_vars
    /\ [][pc = "get" =>
              /\ requests' = Append(requests, Last(requests'))
              /\ Last(requests').url = current.url
              /\ delays' = delays
              /\ pc' # "get"]_vars

\* The third request of a crawl is about to go out, after a failed and an
\* answered one: three delays have been taken.
C14_Witness ==
    /\ pc = "get"
    /\ Len(requests) = 2
    /\ IsFailure(requests[1].response) \/ IsFailure(requests[2].response)
    /\ ~IsFailure(requests[1].response) \/ ~IsFailure(requests[2].response)
    /\ delays = 3 * REQUEST_DELAY

\* C15 (as claimed): a page whose processing ended in an exception (an href
\* on which urljoin raises, part-way through its anchors) has added no entry
\* to the frontier.
C15_FailedPageAddsNothing ==
    \A k \in DOMAIN processed :
        processed[k].raised => processed[k].appended = 0

\* C16 (as claimed): the clean link of an href, canonicalized again against
\* any base, is the same URL.
C16_CanonicalizeIdempotent ==
    canon.stage = "twice" => canon.twice = canon.once

\* C16 (amended): a clean link that is a valid URL (a scheme and a host:
\* the only ones line 110 lets into the frontier) is unchanged when it is
\* canonicalized again, against any base.
C16_IdempotentOnValidLinks ==
    (/\ canon.stage = "twice"
     /\ canon.once.scheme # ""
     /\ canon.once.netloc # "") =>
        canon.twice = canon.once

\* A relative href with a query was resolved on a page of one scheme, and
\* its clean link canonicalized again on a page of the other scheme.
C16_Witness ==
    /\ canon.stage = "twice"
    /\ canon.href = HrefRelQ
    /\ canon.base = StartQuery
    /\ canon.again = BaseHttp
    /\ canon.once # canon.href
    /\ canon.once.netloc = Host

\* C17: whatever the pages link to and however the fetches end, the loop
\* comes to an empty frontier and crawl_website returns the found links and
\* the page count.
C17_CrawlTerminates ==
    <>(/\ pc = "done"
       /\ queue = <<>>
       /\ result.links = found_whatsapp_links
       /\ result.pages = pages_crawled)

\* A crawl that returned after fetching two pages that link to each other,
\* with a failed fetch and a page whose anchors raised on the way.
C17_Witness ==
    /\ pc = "done"
    /\ queue = <<>>
    /\ \E i, j \in DOMAIN requests :
           /\ i # j
           /\ <<requests[i].url, requests[j].url>> \in LinkGraph
           /\ <<requests[j].url, requests[i].url>> \in LinkGraph
    /\ \E i \in DOMAIN requests : IsFailure(requests[i].response)
    /\ \E k \in DOMAIN processed : processed[k].raised

\* C18 (as claimed): at the return of a crawl with a valid start URL and
\* max_depth >= 0, every URL within max_depth links of the start URL, in
\* the graph of the same-domain clean anchors of the pages fetched as HTML,
\* has been requested.
C18_EveryUrlWithinDepthFetched ==
    (/\ pc = "done"
     /\ max_depth >= 0
     /\ start_url.scheme # ""
     /\ start_url.netloc \notin {"", "["}) =>
        \A v \in Within(LinkGraph, max_depth) :
            \E i \in DOMAIN requests : requests[i].url = v

\* The completeness of C18 on the crawls in which no href raises.
CompleteUnlessRaised ==
    NoAnchorRaises => C18_EveryUrlWithinDepthFetched

\* An entry is popped that line 65 drops.
SkipStep ==
    /\ Len(dequeued') = Len(dequeued) + 1
    /\ \/ Last(dequeued').url \in visited_urls
       \/ Last(dequeued').depth > max_depth

\* C19: between iterations and at return pages_crawled is the size of the
\* visited set and the number of requests sent (and the count returned is
\* that number); popping an entry that is visited or too deep changes none
\* of the count, the visited set and the found set, and sends no request.
C19_CountsAgree ==
    /\ [](pc \in {"loop", "done"} =>
              /\ pages_crawled = Cardinality(visited_urls)
              /\ pages_crawled = Len(requests))
    /\ [](pc = "done" => result.pages = Len(requests))
    /\ [][SkipStep =>
              /\ UNCHANGED <<pages_crawled, visited_urls,
                             found_whatsapp_links, requests, delays>>
              /\ pc' = "loop"]_vars

\* A crawl that returned after three or more requests, one of them failed,
\* and after dropping an entry for a url already visited.
C19_Witness ==
    /\ pc = "done"
    /\ pages_crawled >= 3
    /\ \E i \in DOMAIN requests : IsFailure(requests[i].response)
    /\ Len(dequeued) > Len(requests)
    /\ \E j \in DOMAIN dequeued :
           \E i \in 1 .. (j - 1) : dequeued[i].url = dequeued[j].url

=============================================================================
